---- MODULE Spec2Model ----
(***************************************************************************)
(* A model of the CryptoBot backtesting core: BacktestEngine (the bar by   *)
(* bar loop, the account and the trade ledger), RiskManager and            *)
(* PositionSizer.  Python floats are modelled as exact rationals <<n, d>>  *)
(* in lowest terms with d > 0.                                             *)
(***************************************************************************)
EXTENDS Integers, Sequences, FiniteSets, TLC

VARIABLES
    settings,               \* Settings: the risk configuration
    initial_capital,        \* BacktestEngine.initial_capital
    commission,             \* BacktestEngine.commission
    slippage,               \* BacktestEngine.slippage
    balance,                \* BacktestEngine.balance
    equity,                 \* BacktestEngine.equity
    positions,              \* BacktestEngine.positions: symbol -> position
    trades,                 \* BacktestEngine.trades
    equity_curve,           \* BacktestEngine.equity_curve
    dates,                  \* BacktestEngine.dates
    daily_pnl,              \* RiskManager.daily_pnl
    daily_pnl_date,         \* RiskManager.daily_pnl_date
    circuit_breaker_active, \* RiskManager.circuit_breaker_active
    today,                  \* the wall clock's calendar date, datetime.now().date()
    nbars,                  \* how many rows of the data frame the loop has consumed
    last_row,               \* the row consumed last: df.iloc[-1] once the loop ends
    pc,                     \* where run() is: "loop", "done"; "api" for direct calls
    results,                \* what run() returned
    opened,                 \* history: how many positions _check_entry has opened
    call,                   \* history: the last direct RiskManager call and its result
    twin,                   \* a second engine of the same configuration and its clock
    strategy,               \* MACrossoverStrategy: the parameters of its filters
    df,                     \* the data frame handed to generate_signals, and its outcome
    metrics                 \* what PerformanceMetrics.calculate_all_metrics returned

vars == <<settings, initial_capital, commission, slippage, balance, equity,
          positions, trades, equity_curve, dates, daily_pnl, daily_pnl_date,
          circuit_breaker_active, today, nbars, last_row, pc, results, opened,
          call, twin, strategy, df, metrics>>

----------------------------------------------------------------------------
(* Bounds of the model. *)

MaxBars == 3
MaxDay == 1
MaxCalls == 3

----------------------------------------------------------------------------
(* Rational arithmetic. *)

RECURSIVE GCD(_, _)
GCD(a, b) == IF b = 0 THEN a ELSE GCD(b, a % b)

AbsI(n) == IF n < 0 THEN -n ELSE n

Norm(n, d) ==
    LET g == GCD(AbsI(n), AbsI(d))
        s == IF d < 0 THEN -1 ELSE 1
    IN  <<s * (n \div g), s * (d \div g)>>

Q(n) == <<n, 1>>

Frac(n, d) == Norm(n, d)

Neg(a) == <<-a[1], a[2]>>

Add(a, b) ==
    LET g == GCD(a[2], b[2])
        l == (a[2] \div g) * b[2]
    IN  Norm(a[1] * (l \div a[2]) + b[1] * (l \div b[2]), l)

Sub(a, b) == Add(a, Neg(b))

Mul(a, b) ==
    LET g1 == GCD(AbsI(a[1]), b[2])
        g2 == GCD(AbsI(b[1]), a[2])
    IN  Norm((a[1] \div g1) * (b[1] \div g2), (a[2] \div g2) * (b[2] \div g1))

Div(a, b) == Mul(a, IF b[1] < 0 THEN <<-b[2], -b[1]>> ELSE <<b[2], b[1]>>)

Lt(a, b) == Sub(a, b)[1] < 0

Le(a, b) == Sub(a, b)[1] <= 0

Max(a, b) == IF Lt(a, b) THEN b ELSE a

Min(a, b) == IF Lt(b, a) THEN b ELSE a

Abs(a) == <<AbsI(a[1]), a[2]>>

Zero == Q(0)

One == Q(1)

Hundred == Q(100)

----------------------------------------------------------------------------
(* Enumerations of config/constants.py. *)

BUY == 1
HOLD == 0
SELL == -1

SIDE_BUY == "buy"
SIDE_SELL == "sell"

STOP_LOSS == "stop_loss"
TAKE_PROFIT == "take_profit"
SIGNAL == "signal"
MANUAL == "manual"
NoReason == "None"

FIXED == "fixed"
VOLATILITY == "volatility"

Symbol == "BTC/USDT"

----------------------------------------------------------------------------
(* RiskManager (risk/risk_manager.py). *)

\* calculate_stop_loss(entry_price, side)
calculate_stop_loss(entry_price, side) ==
    LET stop_pct == Div(settings.stop_loss_percent, Hundred)
    IN  IF side = SIDE_BUY
        THEN Mul(entry_price, Sub(One, stop_pct))
        ELSE Mul(entry_price, Add(One, stop_pct))

\* calculate_take_profit(entry_price, side)
calculate_take_profit(entry_price, side) ==
    LET tp_pct == Div(settings.take_profit_percent, Hundred)
    IN  IF side = SIDE_BUY
        THEN Mul(entry_price, Add(One, tp_pct))
        ELSE Mul(entry_price, Sub(One, tp_pct))

\* update_trailing_stop without the ratchet: the candidate replaces the stop
update_trailing_stop_no_ratchet(entry_price, current_price, current_stop, side) ==
    IF ~settings.use_trailing_stop
    THEN current_stop
    ELSE LET trail_pct == Div(settings.trailing_stop_percent, Hundred)
         IN  IF side = SIDE_BUY
             THEN Mul(current_price, Sub(One, trail_pct))
             ELSE Mul(current_price, Add(One, trail_pct))

\* update_trailing_stop(entry_price, current_price, current_stop, side)
update_trailing_stop(entry_price, current_price, current_stop, side) ==
    IF ~settings.use_trailing_stop
    THEN current_stop
    ELSE LET trail_pct == Div(settings.trailing_stop_percent, Hundred)
         IN  IF side = SIDE_BUY
             THEN Max(current_stop, Mul(current_price, Sub(One, trail_pct)))
             ELSE Min(current_stop, Mul(current_price, Add(One, trail_pct)))

\* should_close_position testing the take-profit before the stop-loss
should_close_position_tp_first(entry_price, current_price, stop_loss, take_profit, side) ==
    IF side = SIDE_BUY
    THEN IF Le(take_profit, current_price)
         THEN [close |-> TRUE, reason |-> TAKE_PROFIT]
         ELSE IF Le(current_price, stop_loss)
              THEN [close |-> TRUE, reason |-> STOP_LOSS]
              ELSE [close |-> FALSE, reason |-> NoReason]
    ELSE IF Le(current_price, take_profit)
         THEN [close |-> TRUE, reason |-> TAKE_PROFIT]
         ELSE IF Le(stop_loss, current_price)
              THEN [close |-> TRUE, reason |-> STOP_LOSS]
              ELSE [close |-> FALSE, reason |-> NoReason]

\* should_close_position(entry_price, current_price, stop_loss, take_profit, side)
should_close_position(entry_price, current_price, stop_loss, take_profit, side) ==
    IF side = SIDE_BUY
    THEN IF Le(current_price, stop_loss)
         THEN [close |-> TRUE, reason |-> STOP_LOSS]
         ELSE IF Le(take_profit, current_price)
              THEN [close |-> TRUE, reason |-> TAKE_PROFIT]
              ELSE [close |-> FALSE, reason |-> NoReason]
    ELSE IF Le(stop_loss, current_price)
         THEN [close |-> TRUE, reason |-> STOP_LOSS]
         ELSE IF Le(current_price, take_profit)
              THEN [close |-> TRUE, reason |-> TAKE_PROFIT]
              ELSE [close |-> FALSE, reason |-> NoReason]

\* update_daily_pnl(pnl), at wall-clock date now: the tracker after the call
update_daily_pnl(dpnl, ddate, pnl, now) ==
    [daily_pnl      |-> Add(IF now # ddate THEN Zero ELSE dpnl, pnl),
     daily_pnl_date |-> IF now # ddate THEN now ELSE ddate]

\* _is_daily_loss_limit_exceeded()
is_daily_loss_limit_exceeded(dpnl) ==
    Lt(dpnl, Neg(Abs(settings.daily_loss_limit_percent)))

REASON_MAX_POSITIONS == "Max concurrent positions reached"
REASON_DAILY_LOSS == "Daily loss limit exceeded"
REASON_CIRCUIT_BREAKER == "Circuit breaker active"
REASON_BALANCE == "Insufficient balance"
REASON_OK == "OK"

\* can_open_position testing the circuit breaker before the daily loss limit
can_open_position_breaker_first(dpnl, breaker, current_positions, account_balance, proposed_position_size) ==
    IF current_positions >= settings.max_concurrent_positions
    THEN [ok |-> FALSE, reason |-> REASON_MAX_POSITIONS]
    ELSE IF breaker
    THEN [ok |-> FALSE, reason |-> REASON_CIRCUIT_BREAKER]
    ELSE IF is_daily_loss_limit_exceeded(dpnl)
    THEN [ok |-> FALSE, reason |-> REASON_DAILY_LOSS]
    ELSE IF Lt(account_balance, proposed_position_size)
    THEN [ok |-> FALSE, reason |-> REASON_BALANCE]
    ELSE [ok |-> TRUE, reason |-> REASON_OK]

\* can_open_position(current_positions, account_balance, proposed_position_size)
can_open_position(dpnl, breaker, current_positions, account_balance, proposed_position_size) ==
    IF current_positions >= settings.max_concurrent_positions
    THEN [ok |-> FALSE, reason |-> REASON_MAX_POSITIONS]
    ELSE IF is_daily_loss_limit_exceeded(dpnl)
    THEN [ok |-> FALSE, reason |-> REASON_DAILY_LOSS]
    ELSE IF breaker
    THEN [ok |-> FALSE, reason |-> REASON_CIRCUIT_BREAKER]
    ELSE IF Lt(account_balance, proposed_position_size)
    THEN [ok |-> FALSE, reason |-> REASON_BALANCE]
    ELSE [ok |-> TRUE, reason |-> REASON_OK]

\* check_circuit_breaker clearing the flag again on a change within the threshold
check_circuit_breaker_auto_reset(breaker, price_change_percent) ==
    IF ~settings.enable_circuit_breaker
    THEN [ret |-> FALSE, active |-> breaker]
    ELSE IF Lt(settings.circuit_breaker_volatility_threshold, Abs(price_change_percent))
    THEN [ret |-> TRUE, active |-> TRUE]
    ELSE [ret |-> FALSE, active |-> FALSE]

\* check_circuit_breaker(price_change_percent): the return value and the flag after
check_circuit_breaker(breaker, price_change_percent) ==
    IF ~settings.enable_circuit_breaker
    THEN [ret |-> FALSE, active |-> breaker]
    ELSE IF Lt(settings.circuit_breaker_volatility_threshold, Abs(price_change_percent))
    THEN [ret |-> TRUE, active |-> TRUE]
    ELSE [ret |-> FALSE, active |-> breaker]

----------------------------------------------------------------------------
(* PositionSizer (risk/position_sizer.py). *)

\* _calculate_fixed_size(account_balance, risk_percent)
calculate_fixed_size(account_balance, risk_percent) ==
    Mul(account_balance, Div(risk_percent, Hundred))

NoStop == <<0, 0>>

\* _calculate_volatility_based_size deriving a stop from stop_loss_percent when
\* it is given none, instead of falling back to the fixed size
calculate_volatility_based_size_default_stop(account_balance, entry_price, stop_loss_price, risk_percent) ==
    LET stop == IF stop_loss_price = NoStop \/ Le(stop_loss_price, Zero)
                THEN Mul(entry_price, Sub(One, Div(settings.stop_loss_percent, Hundred)))
                ELSE stop_loss_price
        risk_per_unit == Abs(Sub(entry_price, stop))
    IN  IF risk_per_unit = Zero
        THEN calculate_fixed_size(account_balance, risk_percent)
        ELSE Div(Mul(account_balance, Div(risk_percent, Hundred)), risk_per_unit)

\* _calculate_volatility_based_size(...); NoStop is stop_loss_price = None
calculate_volatility_based_size(account_balance, entry_price, stop_loss_price, risk_percent) ==
    IF stop_loss_price = NoStop \/ Le(stop_loss_price, Zero)
    THEN calculate_fixed_size(account_balance, risk_percent)
    ELSE LET risk_per_unit == Abs(Sub(entry_price, stop_loss_price))
         IN  IF risk_per_unit = Zero
             THEN calculate_fixed_size(account_balance, risk_percent)
             ELSE Div(Mul(account_balance, Div(risk_percent, Hundred)), risk_per_unit)

\* calculate_position_size(account_balance, entry_price, stop_loss_price=None)
calculate_position_size(account_balance, entry_price, stop_loss_price) ==
    IF Le(account_balance, Zero) THEN Zero
    ELSE IF Le(entry_price, Zero) THEN Zero
    ELSE LET risk_percent == settings.max_position_size_percent
             method == settings.position_sizing_method
         IN  IF method = FIXED
             THEN calculate_fixed_size(account_balance, risk_percent)
             ELSE IF method = VOLATILITY
             THEN calculate_volatility_based_size(account_balance, entry_price,
                                                  stop_loss_price, risk_percent)
             ELSE calculate_fixed_size(account_balance, risk_percent)

min_notional == Q(10)

\* validate_position_size without its minimum notional test
validate_position_size_no_minimum(position_size, account_balance) ==
    IF Le(position_size, Zero) THEN FALSE
    ELSE LET max_size == Mul(account_balance,
                             Div(settings.max_position_size_percent, Hundred))
         IN  IF Lt(max_size, position_size) THEN FALSE
             ELSE TRUE

\* validate_position_size(position_size, account_balance, symbol)
validate_position_size(position_size, account_balance) ==
    IF Le(position_size, Zero) THEN FALSE
    ELSE LET max_size == Mul(account_balance,
                             Div(settings.max_position_size_percent, Hundred))
         IN  IF Lt(max_size, position_size) THEN FALSE
             ELSE IF Lt(position_size, min_notional) THEN FALSE
             ELSE TRUE

----------------------------------------------------------------------------
(* Strategy (strategies/base_strategy.py, strategies/ma_crossover.py).  A  *)
(* row of the prepared data frame carries its index (name), its close, the *)
(* signal column and the set of its indicator columns that are NaN on it.  *)

\* BaseStrategy.should_enter(row)
should_enter(row) == row.signal = BUY

\* BaseStrategy.should_exit(row, position)
should_exit(row) == row.signal = SELL

\* validate_signal testing the moving averages only
validate_signal_ma_only(row) ==
    IF "fast_ma" \in row.undefined \/ "slow_ma" \in row.undefined THEN FALSE
    ELSE TRUE

\* MACrossoverStrategy.validate_signal(row, signal)
validate_signal(row) ==
    IF "fast_ma" \in row.undefined \/ "slow_ma" \in row.undefined THEN FALSE
    ELSE IF strategy.use_rsi_filter /\ "rsi" \in row.undefined THEN FALSE
    ELSE IF /\ strategy.use_macd_filter
            /\ ("macd" \in row.undefined \/ "macd_signal" \in row.undefined) THEN FALSE
    ELSE IF /\ strategy.use_bb_filter
            /\ ("bb_upper" \in row.undefined \/ "bb_lower" \in row.undefined) THEN FALSE
    ELSE TRUE

\* get_entry_reason(row)
get_entry_reason(row) == "entry signal"

\* float('nan'): an indicator that is not defined on a row
NaN == <<0, 0>>

\* pd.isna(x)
isna(x) == x = NaN

\* The comparisons of pandas: false when either side is NaN
FGt(a, b) == ~isna(a) /\ ~isna(b) /\ Lt(b, a)

FGe(a, b) == ~isna(a) /\ ~isna(b) /\ Le(b, a)

FLt(a, b) == ~isna(a) /\ ~isna(b) /\ Lt(a, b)

FLe(a, b) == ~isna(a) /\ ~isna(b) /\ Le(a, b)

\* What ~ makes of the NaN that shift(-1) leaves in the last place of a
\* boolean series: the operand is a float, so the inversion raises TypeError,
\* or, should the library coerce it, the place counts as true or as false
NanInversions == {"TypeError", "True", "False"}

\* indicators.detect_ma_crossover(fast_ma, slow_ma)
detect_ma_crossover(fast_ma, slow_ma, inverted_nan) ==
    LET n == Len(fast_ma)
        above(i) == FGt(fast_ma[i], slow_ma[i])
        \* fast_ma.shift(1) <= slow_ma.shift(1): NaN in the first place
        was_below(i) == IF i = 1 THEN FALSE ELSE FLe(fast_ma[i - 1], slow_ma[i - 1])
        bullish(i) == above(i) /\ was_below(i)
        \* ~was_below.shift(-1): the next row's was_below, NaN in the last place
        not_was_below_next(i) == IF i < n THEN ~was_below(i + 1)
                                 ELSE inverted_nan = "True"
        bearish(i) == ~above(i) /\ not_was_below_next(i)
    IN  IF n > 0 /\ inverted_nan = "TypeError"
        THEN [error |-> TRUE, signals |-> <<>>]
        ELSE [error   |-> FALSE,
              signals |-> [i \in 1..n |-> IF bearish(i) THEN -1
                                          ELSE IF bullish(i) THEN 1 ELSE 0]]

\* _apply_rsi_filter turning an overbought BUY into a SELL
apply_rsi_filter_reverses(rows) ==
    [i \in DOMAIN rows |->
        IF rows[i].signal = BUY /\ FGt(rows[i].rsi, strategy.rsi_overbought)
        THEN [rows[i] EXCEPT !.signal = SELL]
        ELSE rows[i]]

\* _apply_rsi_filter(df)
apply_rsi_filter(rows) ==
    [i \in DOMAIN rows |->
        LET row == rows[i]
            overbought_mask == row.signal = BUY /\ FGt(row.rsi, strategy.rsi_overbought)
            row1 == IF overbought_mask THEN [row EXCEPT !.signal = HOLD] ELSE row
            oversold_mask == row1.signal = SELL /\ FLt(row1.rsi, strategy.rsi_oversold)
        IN  IF oversold_mask THEN [row1 EXCEPT !.signal = HOLD] ELSE row1]

\* _apply_macd_filter(df)
apply_macd_filter(rows) ==
    [i \in DOMAIN rows |->
        LET row == rows[i]
            bearish_macd == row.signal = BUY /\ FLe(row.macd, row.macd_signal)
            row1 == IF bearish_macd THEN [row EXCEPT !.signal = HOLD] ELSE row
            bullish_macd == row1.signal = SELL /\ FGe(row1.macd, row1.macd_signal)
        IN  IF bullish_macd THEN [row1 EXCEPT !.signal = HOLD] ELSE row1]

\* _apply_bb_filter(df)
apply_bb_filter(rows) ==
    [i \in DOMAIN rows |->
        LET row == rows[i]
            above_upper == row.signal = BUY /\ FGt(row.close, row.bb_upper)
            row1 == IF above_upper THEN [row EXCEPT !.signal = HOLD] ELSE row
            below_lower == row1.signal = SELL /\ FLt(row1.close, row1.bb_lower)
        IN  IF below_lower THEN [row1 EXCEPT !.signal = HOLD] ELSE row1]

\* generate_signals: the enabled filters, applied in its order to the frame
apply_filters(rows) ==
    LET r1 == IF strategy.use_rsi_filter THEN apply_rsi_filter(rows) ELSE rows
        r2 == IF strategy.use_macd_filter THEN apply_macd_filter(r1) ELSE r1
    IN  IF strategy.use_bb_filter THEN apply_bb_filter(r2) ELSE r2

\* MACrossoverStrategy.generate_signals(df): the frame with its ma_crossover
\* and signal columns, or the error detect_ma_crossover raised
generate_signals(rows, inverted_nan) ==
    LET crossover == detect_ma_crossover([i \in DOMAIN rows |-> rows[i].fast_ma],
                                         [i \in DOMAIN rows |-> rows[i].slow_ma],
                                         inverted_nan)
    IN  IF crossover.error
        THEN [state |-> "error", rows |-> rows]
        ELSE LET r0 == [i \in DOMAIN rows |->
                           [rows[i] EXCEPT
                               !.ma_crossover = crossover.signals[i],
                               !.signal = IF crossover.signals[i] = 1 THEN BUY
                                          ELSE IF crossover.signals[i] = -1 THEN SELL
                                          ELSE HOLD]]
             IN  [state |-> "signals", rows |-> apply_filters(r0)]

----------------------------------------------------------------------------
(* BacktestEngine (backtesting/backtest_engine.py).  The operators below   *)
(* take the engine's mutable state as a record e and return it as the      *)
(* method leaves it; now is datetime.now().date() during the call.         *)

Eng ==
    [balance |-> balance, equity |-> equity, positions |-> positions,
     trades |-> trades, equity_curve |-> equity_curve, dates |-> dates,
     daily_pnl |-> daily_pnl, daily_pnl_date |-> daily_pnl_date,
     opened |-> opened]

RECURSIVE SumUnrealized(_, _, _)
SumUnrealized(ps, syms, current_price) ==
    IF syms = {} THEN Zero
    ELSE LET sym == CHOOSE x \in syms : TRUE
             position_value == Mul(current_price, ps[sym].quantity)
             cost == Mul(ps[sym].entry_price, ps[sym].quantity)
         IN  Add(Sub(position_value, cost),
                 SumUnrealized(ps, syms \ {sym}, current_price))

\* _update_equity(current_price): the new self.equity
update_equity(e, current_price) ==
    Add(e.balance, SumUnrealized(e.positions, DOMAIN e.positions, current_price))

\* _close_position without its final del self.positions[symbol]
close_position_keeps_position(e, row, symbol, exit_reason, now) ==
    IF symbol \notin DOMAIN e.positions
    THEN e
    ELSE LET position == e.positions[symbol]
             exit_price == Mul(row.close, Sub(One, slippage))
             proceeds == Mul(exit_price, position.quantity)
             fees == Mul(proceeds, commission)
             net_proceeds == Sub(proceeds, fees)
             cost == Mul(position.entry_price, position.quantity)
             pnl == Sub(net_proceeds, cost)
             trade == [symbol       |-> symbol,
                       entry_price  |-> position.entry_price,
                       exit_price   |-> exit_price,
                       quantity     |-> position.quantity,
                       entry_time   |-> position.entry_time,
                       exit_time    |-> row.name,
                       pnl          |-> pnl,
                       pnl_percent  |-> Mul(Div(pnl, cost), Hundred),
                       fees         |-> Add(position.fees_paid, fees),
                       exit_reason  |-> exit_reason,
                       entry_reason |-> position.entry_reason]
             rm == update_daily_pnl(e.daily_pnl, e.daily_pnl_date, pnl, now)
         IN  [e EXCEPT !.balance = Add(e.balance, net_proceeds),
                       !.trades = Append(e.trades, trade),
                       !.daily_pnl = rm.daily_pnl,
                       !.daily_pnl_date = rm.daily_pnl_date]

\* _close_position stamping the trade with the wall clock instead of the bar
close_position_wall_clock_exit_time(e, row, symbol, exit_reason, now) ==
    IF symbol \notin DOMAIN e.positions
    THEN e
    ELSE LET position == e.positions[symbol]
             exit_price == Mul(row.close, Sub(One, slippage))
             proceeds == Mul(exit_price, position.quantity)
             fees == Mul(proceeds, commission)
             net_proceeds == Sub(proceeds, fees)
             cost == Mul(position.entry_price, position.quantity)
             pnl == Sub(net_proceeds, cost)
             trade == [symbol       |-> symbol,
                       entry_price  |-> position.entry_price,
                       exit_price   |-> exit_price,
                       quantity     |-> position.quantity,
                       entry_time   |-> position.entry_time,
                       exit_time    |-> now,
                       pnl          |-> pnl,
                       pnl_percent  |-> Mul(Div(pnl, cost), Hundred),
                       fees         |-> Add(position.fees_paid, fees),
                       exit_reason  |-> exit_reason,
                       entry_reason |-> position.entry_reason]
             rm == update_daily_pnl(e.daily_pnl, e.daily_pnl_date, pnl, now)
         IN  [e EXCEPT !.balance = Add(e.balance, net_proceeds),
                       !.trades = Append(e.trades, trade),
                       !.daily_pnl = rm.daily_pnl,
                       !.daily_pnl_date = rm.daily_pnl_date,
                       !.positions = [s \in DOMAIN e.positions \ {symbol} |->
                                         e.positions[s]]]

\* _close_position crediting the gross proceeds instead of the net proceeds
close_position_credits_gross(e, row, symbol, exit_reason, now) ==
    IF symbol \notin DOMAIN e.positions
    THEN e
    ELSE LET position == e.positions[symbol]
             exit_price == Mul(row.close, Sub(One, slippage))
             proceeds == Mul(exit_price, position.quantity)
             fees == Mul(proceeds, commission)
             net_proceeds == Sub(proceeds, fees)
             cost == Mul(position.entry_price, position.quantity)
             pnl == Sub(net_proceeds, cost)
             trade == [symbol       |-> symbol,
                       entry_price  |-> position.entry_price,
                       exit_price   |-> exit_price,
                       quantity     |-> position.quantity,
                       entry_time   |-> position.entry_time,
                       exit_time    |-> row.name,
                       pnl          |-> pnl,
                       pnl_percent  |-> Mul(Div(pnl, cost), Hundred),
                       fees         |-> Add(position.fees_paid, fees),
                       exit_reason  |-> exit_reason,
                       entry_reason |-> position.entry_reason]
             rm == update_daily_pnl(e.daily_pnl, e.daily_pnl_date, pnl, now)
         IN  [e EXCEPT !.balance = Add(e.balance, proceeds),
                       !.trades = Append(e.trades, trade),
                       !.daily_pnl = rm.daily_pnl,
                       !.daily_pnl_date = rm.daily_pnl_date,
                       !.positions = [s \in DOMAIN e.positions \ {symbol} |->
                                         e.positions[s]]]

\* _close_position(row, symbol, exit_reason)
close_position(e, row, symbol, exit_reason, now) ==
    IF symbol \notin DOMAIN e.positions
    THEN e
    ELSE LET position == e.positions[symbol]
             current_price == row.close
             exit_price == Mul(current_price, Sub(One, slippage))
             quantity == position.quantity
             proceeds == Mul(exit_price, quantity)
             fees == Mul(proceeds, commission)
             net_proceeds == Sub(proceeds, fees)
             cost == Mul(position.entry_price, quantity)
             pnl == Sub(net_proceeds, cost)
             pnl_percent == Mul(Div(pnl, cost), Hundred)
             trade == [symbol       |-> symbol,
                       entry_price  |-> position.entry_price,
                       exit_price   |-> exit_price,
                       quantity     |-> quantity,
                       entry_time   |-> position.entry_time,
                       exit_time    |-> row.name,
                       pnl          |-> pnl,
                       pnl_percent  |-> pnl_percent,
                       fees         |-> Add(position.fees_paid, fees),
                       exit_reason  |-> exit_reason,
                       entry_reason |-> position.entry_reason]
             rm == update_daily_pnl(e.daily_pnl, e.daily_pnl_date, pnl, now)
         IN  [e EXCEPT !.balance = Add(e.balance, net_proceeds),
                       !.trades = Append(e.trades, trade),
                       !.daily_pnl = rm.daily_pnl,
                       !.daily_pnl_date = rm.daily_pnl_date,
                       !.positions = [s \in DOMAIN e.positions \ {symbol} |->
                                         e.positions[s]]]

\* _check_entry paying the entry fee before it tests the balance
check_entry_fee_before_test(e, row, symbol) ==
    IF ~should_enter(row) THEN e
    ELSE IF ~validate_signal(row) THEN e
    ELSE LET current_price == row.close
             position_size == calculate_position_size(e.balance, current_price, NoStop)
         IN  IF ~validate_position_size(position_size, e.balance) THEN e
             ELSE LET quantity == Div(position_size, current_price)
                      entry_price == Mul(current_price, Add(One, slippage))
                      cost == Mul(entry_price, quantity)
                      fees == Mul(cost, commission)
                      e1 == [e EXCEPT !.balance = Sub(e.balance, fees)]
                  IN  IF Lt(e.balance, Add(cost, fees)) THEN e1
                      ELSE LET position ==
                                   [entry_price   |-> entry_price,
                                    quantity      |-> quantity,
                                    stop_loss     |-> calculate_stop_loss(entry_price, SIDE_BUY),
                                    take_profit   |-> calculate_take_profit(entry_price, SIDE_BUY),
                                    entry_time    |-> row.name,
                                    fees_paid     |-> fees,
                                    highest_price |-> entry_price,
                                    entry_reason  |-> get_entry_reason(row)]
                           IN  [e1 EXCEPT !.positions =
                                              [s \in DOMAIN e.positions \cup {symbol} |->
                                                  IF s = symbol THEN position
                                                  ELSE e.positions[s]],
                                          !.balance = Sub(e1.balance, cost),
                                          !.opened = e.opened + 1]

\* _check_entry opening the position without testing the balance
check_entry_without_balance_test(e, row, symbol) ==
    IF ~should_enter(row) THEN e
    ELSE IF ~validate_signal(row) THEN e
    ELSE LET current_price == row.close
             position_size == calculate_position_size(e.balance, current_price, NoStop)
         IN  IF ~validate_position_size(position_size, e.balance) THEN e
             ELSE LET quantity == Div(position_size, current_price)
                      entry_price == Mul(current_price, Add(One, slippage))
                      cost == Mul(entry_price, quantity)
                      fees == Mul(cost, commission)
                      total_cost == Add(cost, fees)
                      position ==
                          [entry_price   |-> entry_price,
                           quantity      |-> quantity,
                           stop_loss     |-> calculate_stop_loss(entry_price, SIDE_BUY),
                           take_profit   |-> calculate_take_profit(entry_price, SIDE_BUY),
                           entry_time    |-> row.name,
                           fees_paid     |-> fees,
                           highest_price |-> entry_price,
                           entry_reason  |-> get_entry_reason(row)]
                  IN  [e EXCEPT !.positions =
                                    [s \in DOMAIN e.positions \cup {symbol} |->
                                        IF s = symbol THEN position
                                        ELSE e.positions[s]],
                                !.balance = Sub(e.balance, total_cost),
                                !.opened = e.opened + 1]

\* _check_entry(row, symbol)
check_entry(e, row, symbol) ==
    IF ~should_enter(row) THEN e
    ELSE IF ~validate_signal(row) THEN e
    ELSE LET current_price == row.close
             position_size == calculate_position_size(e.balance, current_price, NoStop)
         IN  IF ~validate_position_size(position_size, e.balance) THEN e
             ELSE LET quantity == Div(position_size, current_price)
                      entry_price == Mul(current_price, Add(One, slippage))
                      cost == Mul(entry_price, quantity)
                      fees == Mul(cost, commission)
                      total_cost == Add(cost, fees)
                  IN  IF Lt(e.balance, total_cost) THEN e
                      ELSE LET position ==
                                   [entry_price   |-> entry_price,
                                    quantity      |-> quantity,
                                    stop_loss     |-> calculate_stop_loss(entry_price, SIDE_BUY),
                                    take_profit   |-> calculate_take_profit(entry_price, SIDE_BUY),
                                    entry_time    |-> row.name,
                                    fees_paid     |-> fees,
                                    highest_price |-> entry_price,
                                    entry_reason  |-> get_entry_reason(row)]
                           IN  [e EXCEPT !.positions =
                                             [s \in DOMAIN e.positions \cup {symbol} |->
                                                 IF s = symbol THEN position
                                                 ELSE e.positions[s]],
                                         !.balance = Sub(e.balance, total_cost),
                                         !.opened = e.opened + 1]

\* _manage_position(row, symbol): the position after the trailing-stop update
managed_position(position, row) ==
    LET current_price == row.close
        p1 == [position EXCEPT !.highest_price = Max(position.highest_price, current_price)]
    IN  IF settings.use_trailing_stop
        THEN [p1 EXCEPT !.stop_loss =
                 update_trailing_stop(p1.entry_price, current_price, p1.stop_loss, SIDE_BUY)]
        ELSE p1

\* _manage_position recording trailing_stop when the stop that fired had been
\* ratcheted above the stop of the entry
manage_position_names_trailing_stop(e, row, symbol, now) ==
    LET position == managed_position(e.positions[symbol], row)
        e1 == [e EXCEPT !.positions[symbol] = position]
        sc == should_close_position(position.entry_price, row.close,
                                    position.stop_loss, position.take_profit, SIDE_BUY)
        ratcheted == Lt(calculate_stop_loss(position.entry_price, SIDE_BUY),
                        position.stop_loss)
    IN  IF sc.close
        THEN close_position(e1, row, symbol,
                            IF sc.reason = STOP_LOSS /\ ratcheted
                            THEN "trailing_stop" ELSE sc.reason, now)
        ELSE IF should_exit(row)
             THEN close_position(e1, row, symbol, SIGNAL, now)
             ELSE e1

\* _manage_position asking the strategy for its exit before the risk rule
manage_position_signal_first(e, row, symbol, now) ==
    LET position == managed_position(e.positions[symbol], row)
        e1 == [e EXCEPT !.positions[symbol] = position]
        sc == should_close_position(position.entry_price, row.close,
                                    position.stop_loss, position.take_profit, SIDE_BUY)
    IN  IF should_exit(row)
        THEN close_position(e1, row, symbol, SIGNAL, now)
        ELSE IF sc.close
             THEN close_position(e1, row, symbol, sc.reason, now)
             ELSE e1

\* _manage_position(row, symbol)
manage_position(e, row, symbol, now) ==
    LET position == managed_position(e.positions[symbol], row)
        e1 == [e EXCEPT !.positions[symbol] = position]
        sc == should_close_position(position.entry_price, row.close,
                                    position.stop_loss, position.take_profit, SIDE_BUY)
    IN  IF sc.close
        THEN close_position(e1, row, symbol, sc.reason, now)
        ELSE IF should_exit(row)
             THEN close_position(e1, row, symbol, SIGNAL, now)
             ELSE e1

\* _process_bar recording the equity after the entry/exit step instead of before
process_bar_equity_after_step(e, row, symbol, now) ==
    LET e1 == IF symbol \in DOMAIN e.positions
              THEN manage_position(e, row, symbol, now)
              ELSE check_entry(e, row, symbol)
        eq == update_equity(e1, row.close)
    IN  [e1 EXCEPT !.equity = eq,
                   !.equity_curve = Append(e1.equity_curve, eq),
                   !.dates = Append(e1.dates, row.name)]

\* _process_bar looking for an entry on the bar on which it managed a position
process_bar_manage_then_enter(e, row, symbol, now) ==
    LET eq == update_equity(e, row.close)
        e1 == [e EXCEPT !.equity = eq,
                        !.equity_curve = Append(e.equity_curve, eq),
                        !.dates = Append(e.dates, row.name)]
        e2 == IF symbol \in DOMAIN e1.positions
              THEN manage_position(e1, row, symbol, now)
              ELSE e1
    IN  IF symbol \in DOMAIN e2.positions THEN e2 ELSE check_entry(e2, row, symbol)

\* _process_bar(row, symbol)
process_bar(e, row, symbol, now) ==
    LET eq == update_equity(e, row.close)
        e1 == [e EXCEPT !.equity = eq,
                        !.equity_curve = Append(e.equity_curve, eq),
                        !.dates = Append(e.dates, row.name)]
    IN  IF symbol \in DOMAIN e1.positions
        THEN manage_position(e1, row, symbol, now)
        ELSE check_entry(e1, row, symbol)

\* run() without the close of the remaining position
close_remaining_skipped(e, last, symbol, now) == e

\* run() recomputing the equity after the close of the remaining position
close_remaining_refreshes_equity(e, last, symbol, now) ==
    IF DOMAIN e.positions # {}
    THEN LET e1 == close_position(e, last, symbol, MANUAL, now)
         IN  [e1 EXCEPT !.equity = update_equity(e1, last.close)]
    ELSE e

\* run(): after the loop, close any remaining position on the last row
close_remaining(e, last, symbol, now) ==
    IF DOMAIN e.positions # {}
    THEN close_position(e, last, symbol, MANUAL, now)
    ELSE e

RECURSIVE SumPnl(_)
SumPnl(ts) == IF ts = <<>> THEN Zero ELSE Add(ts[1].pnl, SumPnl(Tail(ts)))

\* trades_df[trades_df['pnl'] > 0]
WinningTrades(ts) == SelectSeq(ts, LAMBDA t : Lt(Zero, t.pnl))

\* trades_df[trades_df['pnl'] <= 0]
LosingTrades(ts) == SelectSeq(ts, LAMBDA t : Le(t.pnl, Zero))

\* np.inf
Inf == <<1, 0>>

\* The largest rise over the first equity point instead of the deepest fall
\* below the running maximum
RECURSIVE MaxRunup(_, _, _)
MaxRunup(curve, i, running_max) ==
    IF i > Len(curve) THEN Inf
    ELSE LET dd == Mul(Div(Sub(curve[i], running_max), running_max), Hundred)
             rest == MaxRunup(curve, i + 1, running_max)
         IN  IF rest = Inf THEN dd ELSE Max(dd, rest)

\* min over the curve of (equity - running_max) / running_max * 100
RECURSIVE MinDrawdown(_, _, _)
MinDrawdown(curve, i, running_max) ==
    IF i > Len(curve) THEN Inf
    ELSE LET rmax == Max(running_max, curve[i])
             dd == Mul(Div(Sub(curve[i], rmax), rmax), Hundred)
             rest == MinDrawdown(curve, i + 1, rmax)
         IN  IF rest = Inf THEN dd ELSE Min(dd, rest)

\* _calculate_results() / _empty_results(): the results record, without the
\* sharpe_ratio (a square root, not a rational)
calculate_results(e) ==
    IF e.trades = <<>>
    THEN [initial_capital |-> initial_capital,
          final_equity    |-> e.equity,
          total_return    |-> Zero,
          total_pnl       |-> Zero,
          total_trades    |-> 0,
          winning_trades  |-> 0,
          losing_trades   |-> 0,
          win_rate        |-> Zero,
          avg_win         |-> Zero,
          avg_loss        |-> Zero,
          profit_factor   |-> Zero,
          max_drawdown    |-> Zero,
          trades          |-> <<>>,
          equity_curve    |-> e.equity_curve,
          dates           |-> e.dates]
    ELSE LET total_trades == Len(e.trades)
             winning_trades == WinningTrades(e.trades)
             losing_trades == LosingTrades(e.trades)
             gross_profit == IF Len(winning_trades) > 0 THEN SumPnl(winning_trades) ELSE Zero
             gross_loss == IF Len(losing_trades) > 0 THEN Abs(SumPnl(losing_trades)) ELSE Zero
         IN  [initial_capital |-> initial_capital,
              final_equity    |-> e.equity,
              total_return    |-> Mul(Div(Sub(e.equity, initial_capital), initial_capital),
                                      Hundred),
              total_pnl       |-> SumPnl(e.trades),
              total_trades    |-> total_trades,
              winning_trades  |-> Len(winning_trades),
              losing_trades   |-> Len(losing_trades),
              win_rate        |-> Mul(Frac(Len(winning_trades), total_trades), Hundred),
              avg_win         |-> IF Len(winning_trades) > 0
                                  THEN Div(SumPnl(winning_trades), Q(Len(winning_trades)))
                                  ELSE Zero,
              avg_loss        |-> IF Len(losing_trades) > 0
                                  THEN Div(SumPnl(losing_trades), Q(Len(losing_trades)))
                                  ELSE Zero,
              profit_factor   |-> IF Lt(Zero, gross_loss)
                                  THEN Div(gross_profit, gross_loss)
                                  ELSE Inf,
              max_drawdown    |-> MinDrawdown(e.equity_curve, 1, e.equity_curve[1]),
              trades          |-> e.trades,
              equity_curve    |-> e.equity_curve,
              dates           |-> e.dates]

----------------------------------------------------------------------------
(* PerformanceMetrics (backtesting/performance.py). *)

\* np.diff(equity_array) / equity_array[:-1]
Returns(curve) ==
    [i \in 1..(Len(curve) - 1) |-> Div(Sub(curve[i + 1], curve[i]), curve[i])]

RECURSIVE SumSeq(_)
SumSeq(xs) == IF xs = <<>> THEN Zero ELSE Add(xs[1], SumSeq(Tail(xs)))

\* A finite float that is no rational: a ratio scaled by np.sqrt(252)
Irrational == <<0, -1>>

\* _calculate_sortino_ratio(equity_curve); the standard deviation of the
\* downside returns is zero exactly when they are all the same
calculate_sortino_ratio(curve) ==
    IF Len(curve) < 2 THEN Zero
    ELSE LET returns == Returns(curve)
             downside_returns == SelectSeq(returns, LAMBDA r : Lt(r, Zero))
             mean_positive == Lt(Zero, SumSeq(returns))
         IN  IF Len(downside_returns) = 0
             THEN IF mean_positive THEN Inf ELSE Zero
             ELSE IF \A i \in 1..Len(downside_returns) :
                        downside_returns[i] = downside_returns[1]
             THEN IF mean_positive THEN Inf ELSE Zero
             ELSE Irrational

\* _calculate_recovery_factor(results)
calculate_recovery_factor(res) ==
    LET max_drawdown == Abs(res.max_drawdown)
    IN  IF max_drawdown = Zero
        THEN IF Lt(Zero, res.total_pnl) THEN Inf ELSE Zero
        ELSE Div(res.total_pnl, max_drawdown)

\* _calculate_calmar_ratio(results)
calculate_calmar_ratio(res) ==
    LET max_drawdown == Abs(res.max_drawdown)
    IN  IF max_drawdown = Zero
        THEN IF Lt(Zero, res.total_return) THEN Inf ELSE Zero
        ELSE Div(res.total_return, max_drawdown)

RECURSIVE SumFees(_)
SumFees(ts) == IF ts = <<>> THEN Zero ELSE Add(ts[1].fees, SumFees(Tail(ts)))

\* calculate_all_metrics(results): the results, and the metrics added to them
\* when there are trades (without the trade duration and the expectancy)
calculate_all_metrics(res) ==
    IF res.trades = <<>>
    THEN [base |-> res, extra |-> <<>>]
    ELSE [base  |-> res,
          extra |-> <<[total_fees      |-> SumFees(res.trades),
                       recovery_factor |-> calculate_recovery_factor(res),
                       sortino_ratio   |-> calculate_sortino_ratio(res.equity_curve),
                       calmar_ratio    |-> calculate_calmar_ratio(res)]>>]

SetEng(e) ==
    /\ balance' = e.balance
    /\ equity' = e.equity
    /\ positions' = e.positions
    /\ trades' = e.trades
    /\ equity_curve' = e.equity_curve
    /\ dates' = e.dates
    /\ daily_pnl' = e.daily_pnl
    /\ daily_pnl_date' = e.daily_pnl_date
    /\ opened' = e.opened

----------------------------------------------------------------------------
(* The inputs the model draws from. *)

Prices == {Q(90), Q(100), Q(120)}

Rates == {Zero, Frac(1, 10)}

TakeProfitPercents == {Q(4), Q(50)}

\* A row past the warm-up, and one on which the slow average is not there yet
UndefinedInputs == {{}, {"slow_ma"}}

Rows(i) ==
    [name : {i}, close : Prices, signal : {SELL, HOLD, BUY},
     undefined : UndefinedInputs]

\* MACrossoverStrategy.__init__ with no parameters: no filter is enabled
DefaultStrategy ==
    [use_rsi_filter  |-> FALSE,
     use_macd_filter |-> FALSE,
     use_bb_filter   |-> FALSE,
     rsi_overbought  |-> Q(70),
     rsi_oversold    |-> Q(30)]

\* No frame has been handed to generate_signals
NoFrame == [state |-> "none", rows |-> <<>>]

DefaultSettings ==
    [stop_loss_percent                    |-> Q(2),
     take_profit_percent                  |-> Q(4),
     trailing_stop_percent                |-> Frac(3, 2),
     use_trailing_stop                    |-> TRUE,
     max_position_size_percent            |-> Q(10),
     position_sizing_method               |-> FIXED,
     max_concurrent_positions             |-> 3,
     daily_loss_limit_percent             |-> Q(5),
     enable_circuit_breaker               |-> TRUE,
     circuit_breaker_volatility_threshold |-> Q(10)]

NoArgs == [none |-> TRUE]

NoReturn == [none |-> TRUE]

NoCall == [n |-> 0, op |-> "none", args |-> NoArgs, ret |-> NoReturn]

NoRow == [name |-> 0, close |-> Zero, signal |-> HOLD, undefined |-> {}]

NoResults ==
    [initial_capital |-> Zero, final_equity |-> Zero, total_return |-> Zero,
     total_pnl |-> Zero, total_trades |-> -1, winning_trades |-> 0,
     losing_trades |-> 0, win_rate |-> Zero, avg_win |-> Zero, avg_loss |-> Zero,
     profit_factor |-> Zero, max_drawdown |-> Zero,
     trades |-> <<>>, equity_curve |-> <<>>, dates |-> <<>>]

\* calculate_all_metrics has not been called
NoMetrics == [base |-> NoResults, extra |-> <<>>]

\* BacktestEngine.__init__ and RiskManager.__init__, for the given configuration
\* and a strategy of the given parameters
ConstructedWith(cap, comm, slip, st, params) ==
    /\ strategy = params
    /\ df = NoFrame
    /\ metrics = NoMetrics
    /\ settings = st
    /\ initial_capital = cap
    /\ commission = comm
    /\ slippage = slip
    /\ balance = cap
    /\ equity = cap
    /\ positions = <<>>
    /\ trades = <<>>
    /\ equity_curve = <<>>
    /\ dates = <<>>
    /\ daily_pnl = Zero
    /\ today = 0
    /\ daily_pnl_date = today
    /\ circuit_breaker_active = FALSE
    /\ nbars = 0
    /\ last_row = NoRow
    /\ results = NoResults
    /\ opened = 0
    /\ call = NoCall
    /\ twin = [e |-> [balance |-> cap, equity |-> cap, positions |-> <<>>,
                      trades |-> <<>>, equity_curve |-> <<>>, dates |-> <<>>,
                      daily_pnl |-> Zero, daily_pnl_date |-> 0, opened |-> 0],
               today |-> 0, results |-> NoResults]

\* The same, for the strategy with its default parameters
Constructed(cap, comm, slip, st) ==
    ConstructedWith(cap, comm, slip, st, DefaultStrategy)

\* A freshly constructed engine whose run() is about to enter its loop
Init ==
    /\ pc = "loop"
    /\ \E comm \in Rates, slip \in Rates, tp \in TakeProfitPercents,
          trailing \in BOOLEAN :
          Constructed(Q(10000), comm, slip,
                      [DefaultSettings EXCEPT !.take_profit_percent = tp,
                                              !.use_trailing_stop = trailing])

Config == <<settings, initial_capital, commission, slippage>>

\* One iteration of run()'s loop: _process_bar on the next row
ProcessBar ==
    /\ pc = "loop"
    /\ nbars < MaxBars
    /\ \E row \in Rows(nbars + 1) :
          /\ SetEng(process_bar(Eng, row, Symbol, today))
          /\ nbars' = nbars + 1
          /\ last_row' = row
    /\ UNCHANGED <<Config, circuit_breaker_active, today, pc, results, call, twin, strategy, df, metrics>>

\* run() after its loop: close what is still open, compute the results, return
Finish ==
    /\ pc = "loop"
    /\ LET e == close_remaining(Eng, last_row, Symbol, today)
       IN  /\ SetEng(e)
           /\ results' = calculate_results(e)
    /\ pc' = "done"
    /\ UNCHANGED <<Config, circuit_breaker_active, today, nbars, last_row, call,
                   twin, strategy, df, metrics>>

\* The wall clock passes midnight
Tick ==
    /\ pc # "done"
    /\ today < MaxDay
    /\ today' = today + 1
    /\ UNCHANGED <<Config, balance, equity, positions, trades, equity_curve,
                   dates, daily_pnl, daily_pnl_date, circuit_breaker_active,
                   nbars, last_row, pc, results, opened, call, twin, strategy, df, metrics>>

Next == ProcessBar \/ Finish \/ Tick

Spec == Init /\ [][Next]_vars

----------------------------------------------------------------------------
(* Two freshly constructed engines of one configuration run on the same    *)
(* rows; the second one's calls of datetime.now() fall on dates of its own. *)

\* The rows both engines are fed: past the warm-up, with a signal to act on
TwinRows(i) ==
    [name : {i}, close : Prices, signal : {SELL, BUY}, undefined : {{}}]

InitTwin ==
    /\ pc = "loop"
    /\ \E comm \in Rates : Constructed(Q(10000), comm, Zero, DefaultSettings)

\* One iteration of the loop of each run, on the same row
TwinProcessBar ==
    /\ pc = "loop"
    /\ nbars < MaxBars
    /\ \E row \in TwinRows(nbars + 1), now2 \in twin.today..MaxDay :
          /\ SetEng(process_bar(Eng, row, Symbol, today))
          /\ twin' = [twin EXCEPT !.e = process_bar(twin.e, row, Symbol, now2),
                                  !.today = now2]
          /\ nbars' = nbars + 1
          /\ last_row' = row
    /\ UNCHANGED <<Config, circuit_breaker_active, today, pc, results, call,
                   strategy, df, metrics>>

\* Each run leaves its loop, closes what is open and returns its results
TwinFinish ==
    /\ pc = "loop"
    /\ \E now2 \in twin.today..MaxDay :
          LET e == close_remaining(Eng, last_row, Symbol, today)
              e2 == close_remaining(twin.e, last_row, Symbol, now2)
          IN  /\ SetEng(e)
              /\ results' = calculate_results(e)
              /\ twin' = [e |-> e2, today |-> now2, results |-> calculate_results(e2)]
    /\ pc' = "done"
    /\ UNCHANGED <<Config, circuit_breaker_active, today, nbars, last_row, call,
                   strategy, df, metrics>>

NextTwin == TwinProcessBar \/ TwinFinish \/ Tick

SpecTwin == InitTwin /\ [][NextTwin]_vars

----------------------------------------------------------------------------
(* Two engines whose settings differ only in position_sizing_method run on  *)
(* the same rows: the first with the method of settings, the second with    *)
(* the other one.  The operators below are the second engine's: the sizer   *)
(* and the two methods of the engine that reach it, reading the method from *)
(* a parameter.                                                             *)

\* calculate_position_size(account_balance, entry_price, stop_loss_price=None)
\* of a sizer whose settings carry the given method
calculate_position_size_with(method, account_balance, entry_price, stop_loss_price) ==
    IF Le(account_balance, Zero) THEN Zero
    ELSE IF Le(entry_price, Zero) THEN Zero
    ELSE LET risk_percent == settings.max_position_size_percent
         IN  IF method = FIXED
             THEN calculate_fixed_size(account_balance, risk_percent)
             ELSE IF method = VOLATILITY
             THEN calculate_volatility_based_size(account_balance, entry_price,
                                                  stop_loss_price, risk_percent)
             ELSE calculate_fixed_size(account_balance, risk_percent)

\* _check_entry(row, symbol) of an engine whose settings carry the given method
check_entry_with(method, e, row, symbol) ==
    IF ~should_enter(row) THEN e
    ELSE IF ~validate_signal(row) THEN e
    ELSE LET current_price == row.close
             position_size == calculate_position_size_with(method, e.balance,
                                                           current_price, NoStop)
         IN  IF ~validate_position_size(position_size, e.balance) THEN e
             ELSE LET quantity == Div(position_size, current_price)
                      entry_price == Mul(current_price, Add(One, slippage))
                      cost == Mul(entry_price, quantity)
                      fees == Mul(cost, commission)
                      total_cost == Add(cost, fees)
                  IN  IF Lt(e.balance, total_cost) THEN e
                      ELSE LET position ==
                                   [entry_price   |-> entry_price,
                                    quantity      |-> quantity,
                                    stop_loss     |-> calculate_stop_loss(entry_price, SIDE_BUY),
                                    take_profit   |-> calculate_take_profit(entry_price, SIDE_BUY),
                                    entry_time    |-> row.name,
                                    fees_paid     |-> fees,
                                    highest_price |-> entry_price,
                                    entry_reason  |-> get_entry_reason(row)]
                           IN  [e EXCEPT !.positions =
                                             [s \in DOMAIN e.positions \cup {symbol} |->
                                                 IF s = symbol THEN position
                                                 ELSE e.positions[s]],
                                         !.balance = Sub(e.balance, total_cost),
                                         !.opened = e.opened + 1]

\* _process_bar(row, symbol) of an engine whose settings carry the given method
process_bar_with(method, e, row, symbol, now) ==
    LET eq == update_equity(e, row.close)
        e1 == [e EXCEPT !.equity = eq,
                        !.equity_curve = Append(e.equity_curve, eq),
                        !.dates = Append(e.dates, row.name)]
    IN  IF symbol \in DOMAIN e1.positions
        THEN manage_position(e1, row, symbol, now)
        ELSE check_entry_with(method, e1, row, symbol)

\* The method of the second engine
OtherMethod == IF settings.position_sizing_method = FIXED THEN VOLATILITY ELSE FIXED

InitMethods ==
    /\ pc = "loop"
    /\ \E comm \in Rates, method \in {FIXED, VOLATILITY} :
          Constructed(Q(10000), comm, Zero,
                      [DefaultSettings EXCEPT !.position_sizing_method = method])

\* One iteration of the loop of each run, on the same row
MethodsProcessBar ==
    /\ pc = "loop"
    /\ nbars < MaxBars
    /\ \E row \in TwinRows(nbars + 1) :
          /\ SetEng(process_bar(Eng, row, Symbol, today))
          /\ twin' = [twin EXCEPT !.e = process_bar_with(OtherMethod, twin.e, row,
                                                         Symbol, today),
                                  !.today = today]
          /\ nbars' = nbars + 1
          /\ last_row' = row
    /\ UNCHANGED <<Config, circuit_breaker_active, today, pc, results, call,
                   strategy, df, metrics>>

\* Each run leaves its loop, closes what is open and returns its results
MethodsFinish ==
    /\ pc = "loop"
    /\ LET e == close_remaining(Eng, last_row, Symbol, today)
           e2 == close_remaining(twin.e, last_row, Symbol, today)
       IN  /\ SetEng(e)
           /\ results' = calculate_results(e)
           /\ twin' = [e |-> e2, today |-> today, results |-> calculate_results(e2)]
    /\ pc' = "done"
    /\ UNCHANGED <<Config, circuit_breaker_active, today, nbars, last_row, call,
                   strategy, df, metrics>>

NextMethods == MethodsProcessBar \/ MethodsFinish \/ Tick

SpecMethods == InitMethods /\ [][NextMethods]_vars

----------------------------------------------------------------------------
(* run() on any data frame: the rows' timestamps come in whatever order    *)
(* the caller's frame has them, and the frame may have no row at all.      *)

Timestamps == 1..MaxBars

UnorderedRows ==
    [name : Timestamps, close : Prices, signal : {SELL, HOLD, BUY},
     undefined : {{}}]

InitBars ==
    /\ pc = "loop"
    /\ Constructed(Q(10000), Zero, Zero, DefaultSettings)

\* One iteration of run()'s loop on the frame's next row, whatever its timestamp
ProcessAnyBar ==
    /\ pc = "loop"
    /\ nbars < MaxBars
    /\ \E row \in UnorderedRows :
          /\ SetEng(process_bar(Eng, row, Symbol, today))
          /\ nbars' = nbars + 1
          /\ last_row' = row
    /\ UNCHANGED <<Config, circuit_breaker_active, today, pc, results, call, twin, strategy, df, metrics>>

NextBars == ProcessAnyBar \/ Finish \/ Tick

SpecBars == InitBars /\ [][NextBars]_vars

----------------------------------------------------------------------------
(* Engines constructed with any configuration a caller may pass: __init__  *)
(* stores initial_capital, commission and the settings as they come.       *)

ConfigCapitals == {Q(10000), Zero}

ConfigCommissions == {Zero, Frac(-1, 10)}

SizingMethods == {FIXED, VOLATILITY, "martingale"}

InitConfig ==
    /\ pc = "loop"
    /\ \E cap \in ConfigCapitals, comm \in ConfigCommissions, method \in SizingMethods :
          Constructed(cap, comm, Zero,
                      [DefaultSettings EXCEPT !.position_sizing_method = method])

SpecConfig == InitConfig /\ [][Next]_vars

----------------------------------------------------------------------------
(* Runs of strategies with any combination of filters over frames whose    *)
(* rows lack one indicator or none, as the rows of the warm-up do.         *)

IndicatorColumns ==
    {"fast_ma", "slow_ma", "rsi", "macd", "macd_signal", "bb_upper", "bb_lower"}

WarmupRows(i) ==
    [name : {i}, close : {Q(100)}, signal : {SELL, BUY},
     undefined : {{}} \cup {{c} : c \in IndicatorColumns}]

InitWarmup ==
    /\ pc = "loop"
    /\ \E rsi \in BOOLEAN, macd \in BOOLEAN, bb \in BOOLEAN :
          ConstructedWith(Q(10000), Zero, Zero, DefaultSettings,
                          [DefaultStrategy EXCEPT !.use_rsi_filter = rsi,
                                                  !.use_macd_filter = macd,
                                                  !.use_bb_filter = bb])

\* One iteration of run()'s loop on a row of such a frame
ProcessWarmupBar ==
    /\ pc = "loop"
    /\ nbars < MaxBars
    /\ \E row \in WarmupRows(nbars + 1) :
          /\ SetEng(process_bar(Eng, row, Symbol, today))
          /\ nbars' = nbars + 1
          /\ last_row' = row
    /\ UNCHANGED <<Config, circuit_breaker_active, today, pc, results, call, twin,
                   strategy, df, metrics>>

NextWarmup == ProcessWarmupBar \/ Finish \/ Tick

SpecWarmup == InitWarmup /\ [][NextWarmup]_vars

----------------------------------------------------------------------------
(* generate_signals on frames whose averages are computed, for any course  *)
(* of the fast average around a slow average of 100; and the filters on    *)
(* frames that carry a crossover signal and put each filter on either side *)
(* of its threshold.                                                       *)

MaxLen == 3

MaxRows == 2

FastInputs == {Q(99), Q(100), Q(101)}

FrameRow(fast, ind) ==
    [fast_ma |-> fast, slow_ma |-> Hundred, rsi |-> ind.rsi, macd |-> ind.macd,
     macd_signal |-> ind.macd_signal, close |-> ind.close,
     bb_upper |-> ind.bb_upper, bb_lower |-> ind.bb_lower,
     ma_crossover |-> 0, signal |-> HOLD]

\* The filters' columns while they warm up
UndefinedIndicators ==
    [rsi |-> NaN, macd |-> NaN, macd_signal |-> NaN, close |-> Hundred,
     bb_upper |-> NaN, bb_lower |-> NaN]

Indicators(rsi, macd, close) ==
    [rsi |-> rsi, macd |-> macd, macd_signal |-> Zero, close |-> close,
     bb_upper |-> Q(110), bb_lower |-> Q(95)]

IndicatorInputs ==
    {UndefinedIndicators,
     Indicators(Q(50), Q(1), Q(100)),
     Indicators(Q(80), Q(1), Q(100)),
     Indicators(Q(20), Q(-1), Q(100)),
     Indicators(Q(50), Q(1), Q(120)),
     Indicators(Q(50), Q(-1), Q(90))}

InitSignals ==
    /\ pc = "strategy"
    /\ \E rsi \in BOOLEAN, macd \in BOOLEAN, bb \in BOOLEAN :
          ConstructedWith(Q(10000), Zero, Zero, DefaultSettings,
                          [DefaultStrategy EXCEPT !.use_rsi_filter = rsi,
                                                  !.use_macd_filter = macd,
                                                  !.use_bb_filter = bb])

StrategyFrame == <<settings, initial_capital, commission, slippage, balance,
                   equity, positions, trades, equity_curve, dates, daily_pnl,
                   daily_pnl_date, circuit_breaker_active, today, nbars,
                   last_row, pc, results, opened, call, twin, strategy>>

\* calculate_indicators returned a frame on which only the averages are defined
LoadAverages ==
    /\ pc = "strategy"
    /\ df.state = "none"
    /\ \E n \in 1..MaxLen :
       \E fast \in [1..n -> FastInputs] :
          df' = [state |-> "raw",
                 rows |-> [i \in 1..n |-> FrameRow(fast[i], UndefinedIndicators)]]
    /\ UNCHANGED <<StrategyFrame, metrics>>

\* A frame with every indicator column, after generate_signals has written
\* a crossover signal to its ma_crossover and signal columns
LoadSignals ==
    /\ pc = "strategy"
    /\ df.state = "none"
    /\ \E n \in 1..MaxRows :
       \E ind \in [1..n -> IndicatorInputs], sig \in [1..n -> {SELL, HOLD, BUY}] :
          df' = [state |-> "crossed",
                 rows |-> [i \in 1..n |->
                              [FrameRow(Hundred, ind[i]) EXCEPT
                                  !.ma_crossover = sig[i], !.signal = sig[i]]]]
    /\ UNCHANGED <<StrategyFrame, metrics>>

\* generate_signals(df), from its first filter on
ApplyFilters ==
    /\ pc = "strategy"
    /\ df.state = "crossed"
    /\ df' = [state |-> "filtered", rows |-> apply_filters(df.rows)]
    /\ UNCHANGED <<StrategyFrame, metrics>>

\* generate_signals(df)
GenerateSignals ==
    /\ pc = "strategy"
    /\ df.state = "raw"
    /\ \E inverted_nan \in NanInversions :
          df' = generate_signals(df.rows, inverted_nan)
    /\ UNCHANGED <<StrategyFrame, metrics>>

NextSignals == LoadAverages \/ GenerateSignals \/ LoadSignals \/ ApplyFilters

SpecSignals == InitSignals /\ [][NextSignals]_vars

----------------------------------------------------------------------------
(* A run followed by PerformanceMetrics.calculate_all_metrics on what it   *)
(* returned, as main.py does.                                              *)

InitMetrics ==
    /\ pc = "loop"
    /\ \E comm \in Rates, tp \in TakeProfitPercents, trailing \in BOOLEAN :
          Constructed(Q(10000), comm, Zero,
                      [DefaultSettings EXCEPT !.take_profit_percent = tp,
                                              !.use_trailing_stop = trailing])

\* PerformanceMetrics.calculate_all_metrics(results)
CalculateAllMetrics ==
    /\ pc = "done"
    /\ metrics = NoMetrics
    /\ metrics' = calculate_all_metrics(results)
    /\ UNCHANGED <<StrategyFrame, df>>

NextMetrics == ProcessBar \/ Finish \/ Tick \/ CalculateAllMetrics

SpecMetrics == InitMetrics /\ [][NextMetrics]_vars

----------------------------------------------------------------------------
(* Runs over the configurations that reach every refusal of _check_entry. *)

CapitalInputs == {Q(10000), Q(50)}

PositionSizePercents == {Q(10), Q(100)}

\* A freshly constructed engine, over the capitals and position sizes that
\* make every refusal of _check_entry happen
InitEntry ==
    /\ pc = "loop"
    /\ \E cap \in CapitalInputs, comm \in Rates, pct \in PositionSizePercents :
          Constructed(cap, comm, Zero,
                      [DefaultSettings EXCEPT !.max_position_size_percent = pct])

SpecEntry == InitEntry /\ [][Next]_vars

----------------------------------------------------------------------------
(* Direct calls of the RiskManager's methods, as the tests and the live    *)
(* loop make them.  call records the last call, its arguments and what it  *)
(* returned; call.n counts the update_daily_pnl calls made so far.         *)

PnlInputs == {Q(-600), Q(-100), Q(-3), Q(200)}

PositionCounts == {0, 2, 3}

BalanceInputs == {Q(10000), Q(500)}

SizeInputs == {Q(1000)}

PriceChangeInputs == {Q(-15), Q(5), Q(10), Q(15)}

EntryInputs == {Q(100)}

CurrentPriceInputs == {Q(97), Q(98), Q(101), Q(104), Q(105)}

Sides == {SIDE_BUY, SIDE_SELL}

InitRisk ==
    /\ pc = "api"
    /\ \E breaker \in BOOLEAN :
          Constructed(Q(10000), Zero, Zero,
                      [DefaultSettings EXCEPT !.enable_circuit_breaker = breaker])

EngineState == <<balance, equity, positions, trades, equity_curve, dates,
                 nbars, last_row, results, opened, twin, strategy, df, metrics>>

CallUpdateDailyPnl ==
    /\ pc = "api"
    /\ call.n < MaxCalls
    /\ \E pnl \in PnlInputs :
          LET rm == update_daily_pnl(daily_pnl, daily_pnl_date, pnl, today)
          IN  /\ daily_pnl' = rm.daily_pnl
              /\ daily_pnl_date' = rm.daily_pnl_date
              /\ call' = [n |-> call.n + 1, op |-> "update_daily_pnl",
                          args |-> [pnl |-> pnl], ret |-> NoReturn]
    /\ UNCHANGED <<Config, EngineState, circuit_breaker_active, today, pc>>

CallCanOpenPosition ==
    /\ pc = "api"
    /\ \E cp \in PositionCounts, bal \in BalanceInputs, size \in SizeInputs :
          call' = [n |-> call.n, op |-> "can_open_position",
                   args |-> [current_positions |-> cp, account_balance |-> bal,
                             proposed_position_size |-> size],
                   ret |-> can_open_position(daily_pnl, circuit_breaker_active,
                                             cp, bal, size)]
    /\ UNCHANGED <<Config, EngineState, daily_pnl, daily_pnl_date,
                   circuit_breaker_active, today, pc>>

CallCheckCircuitBreaker ==
    /\ pc = "api"
    /\ \E chg \in PriceChangeInputs :
          LET r == check_circuit_breaker(circuit_breaker_active, chg)
          IN  /\ circuit_breaker_active' = r.active
              /\ call' = [n |-> call.n, op |-> "check_circuit_breaker",
                          args |-> [price_change_percent |-> chg],
                          ret |-> [triggered |-> r.ret]]
    /\ UNCHANGED <<Config, EngineState, daily_pnl, daily_pnl_date, today, pc>>

\* reset_circuit_breaker()
CallResetCircuitBreaker ==
    /\ pc = "api"
    /\ circuit_breaker_active' = FALSE
    /\ call' = [n |-> call.n, op |-> "reset_circuit_breaker", args |-> NoArgs,
                ret |-> NoReturn]
    /\ UNCHANGED <<Config, EngineState, daily_pnl, daily_pnl_date, today, pc>>

CallCalculateStopLoss ==
    /\ pc = "api"
    /\ \E entry \in EntryInputs, side \in Sides :
          call' = [n |-> call.n, op |-> "calculate_stop_loss",
                   args |-> [entry_price |-> entry, side |-> side],
                   ret |-> [price |-> calculate_stop_loss(entry, side)]]
    /\ UNCHANGED <<Config, EngineState, daily_pnl, daily_pnl_date,
                   circuit_breaker_active, today, pc>>

\* should_close_position on the thresholds of an entry, or on overlapping ones
CallShouldClosePosition ==
    /\ pc = "api"
    /\ \E entry \in EntryInputs, price \in CurrentPriceInputs, side \in Sides :
       \E stop \in {calculate_stop_loss(entry, side), Q(105)},
          tp \in {calculate_take_profit(entry, side)} :
          call' = [n |-> call.n, op |-> "should_close_position",
                   args |-> [entry_price |-> entry, current_price |-> price,
                             stop_loss |-> stop, take_profit |-> tp, side |-> side],
                   ret |-> should_close_position(entry, price, stop, tp, side)]
    /\ UNCHANGED <<Config, EngineState, daily_pnl, daily_pnl_date,
                   circuit_breaker_active, today, pc>>

NextRisk ==
    \/ CallUpdateDailyPnl
    \/ CallCanOpenPosition
    \/ CallCheckCircuitBreaker
    \/ CallResetCircuitBreaker
    \/ CallCalculateStopLoss
    \/ CallShouldClosePosition
    \/ Tick

SpecRisk == InitRisk /\ [][NextRisk]_vars

----------------------------------------------------------------------------
(* A run of the engine followed by direct calls of the sizer's validation, *)
(* as the tests make them, on the same settings.                           *)

PositionSizeArgs == {Q(-5), Zero, Q(5), Q(10), Q(1000), Q(1001)}

AccountBalanceArgs == {Q(10000), Q(50)}

\* A freshly constructed engine with a capital of 50: a tenth of it is below
\* the minimum notional, all of it is above
InitSizer ==
    /\ pc = "loop"
    /\ \E pct \in PositionSizePercents :
          Constructed(Q(50), Zero, Zero,
                      [DefaultSettings EXCEPT !.max_position_size_percent = pct])

CallValidatePositionSize ==
    /\ pc = "done"
    /\ \E size \in PositionSizeArgs, bal \in AccountBalanceArgs :
          call' = [n |-> call.n, op |-> "validate_position_size",
                   args |-> [position_size |-> size, account_balance |-> bal],
                   ret |-> [valid |-> validate_position_size(size, bal)]]
    /\ UNCHANGED <<Config, EngineState, daily_pnl, daily_pnl_date,
                   circuit_breaker_active, today, pc>>

NextSizer == ProcessBar \/ Finish \/ Tick \/ CallValidatePositionSize

SpecSizer == InitSizer /\ [][NextSizer]_vars

----------------------------------------------------------------------------
(* The claims. *)

\* Comparison of rationals by cross-multiplication
RLe(a, b) == a[1] * b[2] <= b[1] * a[2]

RLt(a, b) == a[1] * b[2] < b[1] * a[2]

IsOpen == DOMAIN positions # {}

IsBarStep == nbars' = nbars + 1

\* C1: every trade in the ledger has
\* pnl = (exit_price - entry_price) * quantity - fees, where fees is the
\* trade's recorded total (entry fee plus exit fee).
C1_PnlNetOfTotalFees ==
    \A i \in 1..Len(trades) :
        trades[i].pnl =
            Sub(Mul(Sub(trades[i].exit_price, trades[i].entry_price),
                    trades[i].quantity),
                trades[i].fees)

\* The run of claim C2: capital 10000, no commission, no slippage, one BUY
\* filled at 100 for quantity 10, still open on the last bar, whose close is 120.
C2_Scenario ==
    /\ pc = "done"
    /\ initial_capital = Q(10000)
    /\ commission = Zero
    /\ slippage = Zero
    /\ opened = 1
    /\ Len(trades) = 1
    /\ trades[1].entry_price = Q(100)
    /\ trades[1].quantity = Q(10)
    /\ trades[1].exit_reason = MANUAL
    /\ trades[1].entry_time < nbars
    /\ last_row.close = Q(120)

\* C2: that run ends with exactly one trade of pnl 200 and a reported
\* final_equity of 10200.
C2_SingleBuyForcedClose ==
    C2_Scenario =>
        /\ results.total_trades = 1
        /\ trades[1].pnl = Q(200)
        /\ results.final_equity = Q(10200)

\* C3: the equity curve has one entry per bar processed and its first entry
\* is the initial capital.
C3_EquityCurvePerBar ==
    /\ Len(equity_curve) = nbars
    /\ Len(dates) = nbars
    /\ nbars > 0 => equity_curve[1] = initial_capital
    /\ pc = "done" => results.equity_curve = equity_curve

C3_Witness ==
    /\ pc = "done"
    /\ nbars >= 2
    /\ trades # <<>>
    /\ trades[1].entry_time = 1
    /\ equity_curve[2] # initial_capital

ManualTrades(ts) == {i \in 1..Len(ts) : ts[i].exit_reason = MANUAL}

\* C4: when run leaves its loop with a position open, it closes it once: one
\* trade is appended, with reason manual, the exit price derived from the last
\* bar's close and exit_time the last bar's timestamp, and nothing stays open;
\* with no position open it appends nothing.
C4_ForcedClose ==
    [][(pc = "loop" /\ pc' = "done") =>
         IF IsOpen
         THEN /\ Len(trades') = Len(trades) + 1
              /\ SubSeq(trades', 1, Len(trades)) = trades
              /\ LET t == trades'[Len(trades')]
                 IN  /\ t.exit_reason = MANUAL
                     /\ t.exit_time = nbars
                     /\ t.exit_time = last_row.name
                     /\ t.exit_price = Mul(last_row.close, Sub(One, slippage))
                     /\ t.entry_time = positions[Symbol].entry_time
                     /\ t.quantity = positions[Symbol].quantity
              /\ Cardinality(ManualTrades(trades')) = 1
              /\ DOMAIN positions' = {}
         ELSE /\ trades' = trades
              /\ ManualTrades(trades') = {}]_vars

C4_Witness ==
    /\ pc = "done"
    /\ trades # <<>>
    /\ trades[Len(trades)].exit_reason = MANUAL
    /\ trades[Len(trades)].entry_time = nbars
    /\ trades[Len(trades)].exit_time = nbars

\* C5: at most one position is open; the positions opened so far are the
\* trades plus the open one; after run returns nothing is open; every trade
\* follows its own entry and the trades' lifetimes do not overlap.
C5_PositionLifecycle ==
    /\ Cardinality(DOMAIN positions) <= 1
    /\ DOMAIN positions \subseteq {Symbol}
    /\ opened = Len(trades) + Cardinality(DOMAIN positions)
    /\ pc = "done" => (~IsOpen /\ opened = Len(trades))
    /\ \A i \in 1..Len(trades) :
          /\ 1 <= trades[i].entry_time
          /\ trades[i].entry_time <= trades[i].exit_time
          /\ trades[i].exit_time <= nbars
    /\ \A i, j \in 1..Len(trades) :
          i < j => trades[i].exit_time < trades[j].entry_time
    /\ IsOpen /\ trades # <<>> =>
          trades[Len(trades)].exit_time < positions[Symbol].entry_time

C5_Witness ==
    /\ pc = "done"
    /\ Len(trades) = 2
    /\ opened = 2

\* C6: over a bar on which a long position stays open its stop_loss does not
\* decrease: with trailing enabled it becomes
\* max(stop, close * (1 - trailing_stop_percent / 100)), otherwise it is unchanged.
C6_StopNeverDecreases ==
    [][(IsBarStep /\ Symbol \in DOMAIN positions /\ Symbol \in DOMAIN positions') =>
         LET old == positions[Symbol].stop_loss
             new == positions'[Symbol].stop_loss
             cand == Mul(last_row'.close,
                         Sub(One, Div(settings.trailing_stop_percent, Hundred)))
         IN  /\ RLe(old, new)
             /\ settings.use_trailing_stop => new = IF RLt(old, cand) THEN cand ELSE old
             /\ ~settings.use_trailing_stop => new = old]_vars

C6_Witness ==
    /\ IsOpen
    /\ settings.use_trailing_stop
    /\ positions[Symbol].entry_time < nbars
    /\ RLt(calculate_stop_loss(positions[Symbol].entry_price, SIDE_BUY),
           positions[Symbol].stop_loss)

\* C7: for a long position should_close_position returns (true, STOP_LOSS)
\* whenever price <= stop, also when price >= take-profit; (true, TAKE_PROFIT)
\* exactly when price > stop and price >= take-profit; (false, none) otherwise;
\* the stop of an entry at 100 with stop_loss_percent 2 is 98, and a price of 97
\* against it closes with STOP_LOSS.
C7_ShouldCloseLong ==
    /\ (call.op = "should_close_position" /\ call.args.side = SIDE_BUY) =>
          LET price == call.args.current_price
              stop == call.args.stop_loss
              tp == call.args.take_profit
              r == call.ret
          IN  /\ RLe(price, stop) => (r.close /\ r.reason = STOP_LOSS)
              /\ (r.close /\ r.reason = TAKE_PROFIT) <=> (RLt(stop, price) /\ RLe(tp, price))
              /\ (RLt(stop, price) /\ RLt(price, tp)) => (~r.close /\ r.reason = NoReason)
              /\ (stop = Q(98) /\ price = Q(97)) => r.reason = STOP_LOSS
    /\ (/\ call.op = "calculate_stop_loss"
        /\ call.args.side = SIDE_BUY
        /\ call.args.entry_price = Q(100)
        /\ settings.stop_loss_percent = Q(2)) => call.ret.price = Q(98)

C7_Witness ==
    /\ call.op = "should_close_position"
    /\ call.args.side = SIDE_BUY
    /\ RLe(call.args.current_price, call.args.stop_loss)
    /\ RLe(call.args.take_profit, call.args.current_price)
    /\ call.ret = [close |-> TRUE, reason |-> STOP_LOSS]

\* C8: the engine opens no position on a bar on which the RiskManager's
\* can_open_position would reject it.
C8_EntryGatedByRiskManager ==
    [][(IsBarStep /\ ~IsOpen /\ DOMAIN positions' # {}) =>
         can_open_position(daily_pnl, circuit_breaker_active,
                           Cardinality(DOMAIN positions), balance,
                           calculate_position_size(balance, last_row'.close, NoStop)).ok]_vars

\* C9: can_open_position rejects with the daily-loss reason exactly when
\* open_count is below the maximum and daily_pnl is below minus
\* daily_loss_limit_percent percent of the account.
C9_DailyLossGateIsPercentOfCapital ==
    call.op = "can_open_position" =>
        LET limit == Mul(Div(Abs(settings.daily_loss_limit_percent), Hundred),
                         call.args.account_balance)
        IN  (~call.ret.ok /\ call.ret.reason = REASON_DAILY_LOSS) <=>
                (/\ call.args.current_positions < settings.max_concurrent_positions
                 /\ RLt(daily_pnl, Neg(limit)))

\* C10: can_open_position returns (true, OK) exactly when none of its four
\* gates fails, otherwise false with the reason of the first failing gate in
\* the order max positions, daily loss limit, circuit breaker, size > balance;
\* the call leaves the RiskManager's state as it was.
C10_GateOrder ==
    [][call'.op = "can_open_position" =>
         LET a == call'.args
             r == call'.ret
             g1 == a.current_positions >= settings.max_concurrent_positions
             g2 == is_daily_loss_limit_exceeded(daily_pnl)
             g3 == circuit_breaker_active
             g4 == RLt(a.account_balance, a.proposed_position_size)
         IN  /\ r.ok <=> ~(g1 \/ g2 \/ g3 \/ g4)
             /\ r.ok => r.reason = REASON_OK
             /\ g1 => r.reason = REASON_MAX_POSITIONS
             /\ (~g1 /\ g2) => r.reason = REASON_DAILY_LOSS
             /\ (~g1 /\ ~g2 /\ g3) => r.reason = REASON_CIRCUIT_BREAKER
             /\ (~g1 /\ ~g2 /\ ~g3 /\ g4) => r.reason = REASON_BALANCE
             /\ UNCHANGED <<daily_pnl, daily_pnl_date, circuit_breaker_active>>]_vars

C10_Witness ==
    /\ call.op = "can_open_position"
    /\ is_daily_loss_limit_exceeded(daily_pnl)
    /\ circuit_breaker_active
    /\ call.ret = [ok |-> FALSE, reason |-> REASON_DAILY_LOSS]

\* C11: the circuit breaker is a latch.  A check_circuit_breaker call leaves
\* the flag set exactly when it was set already or the breaker is enabled and
\* |price_change_percent| > threshold, and returns true exactly in the latter
\* case; no call other than reset_circuit_breaker clears the flag, which does
\* clear it; while the flag is set can_open_position never returns true.
C11_BreakerLatch ==
    [][/\ call'.op = "check_circuit_breaker" =>
            LET trip == /\ settings.enable_circuit_breaker
                        /\ RLt(settings.circuit_breaker_volatility_threshold,
                               Abs(call'.args.price_change_percent))
            IN  /\ circuit_breaker_active' = (circuit_breaker_active \/ trip)
                /\ call' # call => call'.ret.triggered = trip
       /\ (circuit_breaker_active /\ call'.op # "reset_circuit_breaker") =>
            circuit_breaker_active'
       /\ call'.op = "reset_circuit_breaker" => ~circuit_breaker_active'
       /\ (call'.op = "can_open_position" /\ circuit_breaker_active) =>
            ~call'.ret.ok]_vars

C11_Witness ==
    /\ circuit_breaker_active
    /\ daily_pnl # Zero
    /\ call.op = "check_circuit_breaker"
    /\ call.args.price_change_percent = Q(5)
    /\ ~call.ret.triggered

OtherSymbol == "ETH/USDT"

\* C12: a bar on which no position is open and none is opened (the entry is
\* refused: no BUY signal, signal not valid, size not valid, or total cost above
\* the balance) leaves the balance, the position map and the trade ledger as
\* they were; closing a symbol that has no open position changes nothing.
C12_RejectedEntryFrame ==
    [][/\ (IsBarStep /\ ~IsOpen /\ DOMAIN positions' = {}) =>
            /\ balance' = balance
            /\ positions' = positions
            /\ trades' = trades
            /\ opened' = opened
       /\ close_position(Eng, last_row, OtherSymbol, MANUAL, today) = Eng
       /\ ~IsOpen => close_position(Eng, last_row, Symbol, MANUAL, today) = Eng]_vars

\* A BUY with a valid signal and a valid size refused for its total cost
C12_Witness ==
    /\ nbars >= 1
    /\ last_row.signal = BUY
    /\ validate_signal(last_row)
    /\ validate_position_size(
          calculate_position_size(balance, last_row.close, NoStop), balance)
    /\ ~IsOpen
    /\ opened = 0
    /\ balance = initial_capital

\* C13: two freshly constructed engines of one configuration fed the same bar
\* sequence have the same equity curve, dates and trade ledger after every
\* bar and return the same results, on whatever dates their wall clocks stand.
C13_Determinism ==
    /\ equity_curve = twin.e.equity_curve
    /\ dates = twin.e.dates
    /\ trades = twin.e.trades
    /\ balance = twin.e.balance
    /\ positions = twin.e.positions
    /\ pc = "done" => results = twin.results

\* Both runs returned trades, and their clocks left different daily trackers
C13_Witness ==
    /\ pc = "done"
    /\ Len(trades) = 2
    /\ today # twin.today
    /\ daily_pnl # twin.e.daily_pnl
    /\ results.total_trades = 2

\* The frame's timestamps, in the order the loop consumed them, never descend
SortedAscending(ds) == \A i \in 1..(Len(ds) - 1) : ds[i] <= ds[i + 1]

\* C14: run returns results only for a bar sequence that is not empty and is
\* sorted ascending by timestamp; on any other it aborts and returns none.
C14_MalformedBarsAbort ==
    pc = "done" => (nbars > 0 /\ SortedAscending(dates))

\* C15: only an engine with positive initial capital, a commission that is
\* not negative and a position_sizing_method of fixed or volatility opens a
\* position or returns results; with any other configuration the run aborts.
C15_ConfigErrorsFatal ==
    (IsOpen \/ pc = "done") =>
        /\ RLt(Zero, initial_capital)
        /\ RLe(Zero, commission)
        /\ settings.position_sizing_method \in {FIXED, VOLATILITY}

\* The indicators the strategy's configuration requires on a bar
RequiredIndicators ==
    {"fast_ma", "slow_ma"}
        \cup (IF strategy.use_rsi_filter THEN {"rsi"} ELSE {})
        \cup (IF strategy.use_macd_filter THEN {"macd", "macd_signal"} ELSE {})
        \cup (IF strategy.use_bb_filter THEN {"bb_upper", "bb_lower"} ELSE {})

\* C18: on every bar validate_signal is false exactly when an indicator the
\* configuration requires is undefined on the bar, and the engine opens no
\* position on such a bar.
C18_WarmupGuard ==
    [][IsBarStep =>
         LET missing == RequiredIndicators \cap last_row'.undefined
         IN  /\ validate_signal(last_row') <=> (missing = {})
             /\ (~IsOpen /\ DOMAIN positions' # {}) => missing = {}
             /\ missing # {} => opened' = opened]_vars

\* A BUY row without its RSI refused by a strategy that filters on the RSI
C18_Witness ==
    /\ strategy.use_rsi_filter
    /\ ~strategy.use_macd_filter
    /\ last_row.signal = BUY
    /\ last_row.undefined = {"rsi"}
    /\ nbars = 2
    /\ opened = 0
    /\ balance = initial_capital

\* The crossover signal of the claims on bar i of a frame's rows
ExpectedCrossover(rows, i) ==
    IF i = 1 THEN 0
    ELSE IF /\ RLt(rows[i].slow_ma, rows[i].fast_ma)
            /\ RLe(rows[i - 1].fast_ma, rows[i - 1].slow_ma) THEN 1
    ELSE IF /\ RLt(rows[i - 1].slow_ma, rows[i - 1].fast_ma)
            /\ RLe(rows[i].fast_ma, rows[i].slow_ma) THEN -1
    ELSE 0

\* C16: generate_signals yields, on every bar of a frame whose averages are
\* defined, the crossover signal +1 exactly on a transition from fast <= slow
\* to fast > slow, -1 exactly on the reverse transition and 0 elsewhere.
C16_CrossoverSignal ==
    df.state \in {"signals", "error"} =>
        /\ df.state = "signals"
        /\ \A i \in 1..Len(df.rows) :
              df.rows[i].ma_crossover = ExpectedCrossover(df.rows, i)

\* C17: on every bar, under every combination of filters, the final signal is
\* -1, 0 or 1 and is either the unfiltered crossover signal or HOLD.
C17_FiltersVetoOnly ==
    df.state \in {"signals", "filtered"} =>
        \A i \in 1..Len(df.rows) :
            /\ df.rows[i].signal \in {SELL, HOLD, BUY}
            /\ \/ df.rows[i].signal = df.rows[i].ma_crossover
               \/ df.rows[i].signal = HOLD

\* A frame on which the RSI filter vetoed a BUY and the MACD filter a SELL
C17_Witness ==
    /\ df.state = "filtered"
    /\ strategy.use_rsi_filter
    /\ strategy.use_macd_filter
    /\ ~strategy.use_bb_filter
    /\ Len(df.rows) = 2
    /\ df.rows[1].ma_crossover = BUY
    /\ df.rows[1].rsi = Q(80)
    /\ df.rows[1].signal = HOLD
    /\ df.rows[2].ma_crossover = SELL
    /\ df.rows[2].rsi = Q(50)
    /\ df.rows[2].signal = HOLD

\* Sum of the pnl of the trades of a ledger that satisfy a test
RECURSIVE LedgerPnl(_, _)
LedgerPnl(ts, winning) ==
    IF ts = <<>> THEN Zero
    ELSE LET rest == LedgerPnl(Tail(ts), winning)
         IN  IF RLt(Zero, ts[1].pnl) = winning THEN Add(ts[1].pnl, rest) ELSE rest

HasWinner(ts) == \E i \in 1..Len(ts) : RLt(Zero, ts[i].pnl)

\* C19: the reported profit_factor is +inf exactly when the ledger has a
\* winning trade and its non-winning trades' pnl sums to zero; it is 0 for an
\* empty ledger and gross_profit / gross_loss when there is a gross loss.
C19_ProfitFactor ==
    pc = "done" =>
        LET gross_profit == LedgerPnl(trades, TRUE)
            gross_loss == Abs(LedgerPnl(trades, FALSE))
        IN  /\ (results.profit_factor = Inf) <=>
                   (HasWinner(trades) /\ gross_loss = Zero)
            /\ trades = <<>> => results.profit_factor = Zero
            /\ gross_loss # Zero =>
                   results.profit_factor = Div(gross_profit, gross_loss)

\* C20: for a run whose ledger has a trade and only winning trades, the
\* metrics computed from its results report profit_factor and sortino_ratio
\* as +inf.
C20_NoLosersInfiniteRatios ==
    (/\ metrics.extra # <<>>
     /\ trades # <<>>
     /\ \A i \in 1..Len(trades) : RLt(Zero, trades[i].pnl)) =>
        /\ metrics.base.profit_factor = Inf
        /\ metrics.extra[1].sortino_ratio = Inf

\* The running maximum of a curve up to its place i
RECURSIVE RunningMax(_, _)
RunningMax(curve, i) ==
    IF i = 1 THEN curve[1]
    ELSE LET m == RunningMax(curve, i - 1)
         IN  IF RLt(m, curve[i]) THEN curve[i] ELSE m

\* C21: the results of every run have 0 <= win_rate <= 100 and
\* max_drawdown <= 0; the running maximum of the equity curve is at least the
\* initial capital at every bar.
C21_MetricRanges ==
    /\ pc = "done" =>
          /\ RLe(Zero, results.win_rate)
          /\ RLe(results.win_rate, Hundred)
          /\ results.max_drawdown # Inf
          /\ RLe(results.max_drawdown, Zero)
    /\ \A i \in 1..Len(equity_curve) :
          /\ RLe(initial_capital, RunningMax(equity_curve, i))
          /\ RLe(equity_curve[i], RunningMax(equity_curve, i))

\* A run with a winning and a losing trade whose curve fell below its peak
C21_Witness ==
    /\ pc = "done"
    /\ results.win_rate = Q(50)
    /\ RLt(results.max_drawdown, Zero)
    /\ \E i \in 1..Len(equity_curve) : RLt(initial_capital, equity_curve[i])

\* balance * max_position_size_percent / 100
MaxPositionSize(bal) == Div(Mul(bal, settings.max_position_size_percent), Hundred)

\* C22: validate_position_size returns true exactly when the size is positive,
\* at most balance * max_position_size_percent / 100 and at least 10; and with
\* fixed sizing a bar opens a position only while
\* balance * max_position_size_percent / 100 is at least 10.
C22_ValidatePositionSize ==
    [][/\ call'.op = "validate_position_size" =>
            (call'.ret.valid <=>
                /\ RLt(Zero, call'.args.position_size)
                /\ RLe(call'.args.position_size,
                       MaxPositionSize(call'.args.account_balance))
                /\ RLe(Q(10), call'.args.position_size))
       /\ (/\ IsBarStep
           /\ ~IsOpen
           /\ settings.position_sizing_method = FIXED
           /\ RLt(MaxPositionSize(balance), Q(10)))
            => (~IsOpen' /\ trades' = trades /\ balance' = balance)
      ]_vars

\* A run that ended on a BUY bar without a trade because a tenth of its
\* balance of 50 is below the minimum, and a direct call that refuses the size
\* 5 against the balance 50 for the same reason
C22_Witness ==
    /\ pc = "done"
    /\ nbars > 0
    /\ last_row.signal = BUY
    /\ trades = <<>>
    /\ RLt(MaxPositionSize(initial_capital), Q(10))
    /\ call.op = "validate_position_size"
    /\ ~call.ret.valid
    /\ call.args.position_size = Q(5)
    /\ call.args.account_balance = Q(50)

\* The unrealized pnl of the open position at a price, zero when flat
UnrealizedAt(price) ==
    IF IsOpen
    THEN Mul(Sub(price, positions[Symbol].entry_price), positions[Symbol].quantity)
    ELSE Zero

\* C23: on every bar the equity appended is the balance plus the unrealized
\* pnl of the position held when the bar began, at the bar's close; after that
\* a bar that began with a position only manages it and a bar that began flat
\* only looks for an entry, so a bar that closes a position opens none.
C23_PerBarOrdering ==
    [][IsBarStep =>
         /\ Len(equity_curve') = Len(equity_curve) + 1
         /\ Sub(equity_curve'[Len(equity_curve')],
                Add(balance, UnrealizedAt(last_row'.close))) = Zero
         /\ IsOpen => (\/ ~IsOpen' /\ Len(trades') = Len(trades) + 1
                       \/ /\ IsOpen'
                          /\ trades' = trades
                          /\ balance' = balance
                          /\ positions'[Symbol].entry_time = positions[Symbol].entry_time)
         /\ ~IsOpen => trades' = trades
         /\ Len(trades') > Len(trades) => ~IsOpen'
      ]_vars

\* A bar with a BUY signal has just closed a position on its risk rule: the
\* engine is flat and the bar's equity point differs from the new balance
C23_Witness ==
    /\ pc = "loop"
    /\ nbars >= 2
    /\ last_row.signal = BUY
    /\ trades # <<>>
    /\ trades[Len(trades)].exit_time = last_row.name
    /\ trades[Len(trades)].exit_reason \in {STOP_LOSS, TAKE_PROFIT}
    /\ ~IsOpen
    /\ equity_curve[nbars] # balance

\* The stop-loss / take-profit rule fires for a position at a price
RiskRuleFires(position, price) ==
    \/ RLe(price, position.stop_loss)
    \/ RLe(position.take_profit, price)

\* C24: on a bar that begins with a position, if the stop-loss / take-profit
\* rule fires on the stop as ratcheted on that bar, the bar records exactly one
\* trade and its reason is stop_loss or take_profit, whatever the signal; a
\* trade with reason signal is recorded only on a SELL bar on which the risk
\* rule did not fire.
C24_ExitPrecedence ==
    [][(IsBarStep /\ IsOpen) =>
         LET position == managed_position(positions[Symbol], last_row')
             risk == RiskRuleFires(position, last_row'.close)
             closed == Len(trades') = Len(trades) + 1
             reason == trades'[Len(trades')].exit_reason
         IN  /\ Len(trades') <= Len(trades) + 1
             /\ risk => (closed /\ reason \in {STOP_LOSS, TAKE_PROFIT})
             /\ (closed /\ reason = SIGNAL) => (~risk /\ last_row'.signal = SELL)
             /\ (~risk /\ last_row'.signal = SELL) => (closed /\ reason = SIGNAL)
      ]_vars

\* A SELL bar whose close is at or below the stop has closed the position:
\* the trade carries stop_loss
C24_Witness ==
    /\ pc = "loop"
    /\ last_row.signal = SELL
    /\ trades # <<>>
    /\ trades[Len(trades)].exit_time = last_row.name
    /\ trades[Len(trades)].exit_reason = STOP_LOSS
    /\ RLt(last_row.close, trades[Len(trades)].entry_price)

\* The calendar date of a bar: the bars of a frame are one day apart
BarDate(name) == name

\* The sum of the pnl of the trades closed on a date
RECURSIVE PnlRealizedOn(_, _)
PnlRealizedOn(ts, date) ==
    IF ts = <<>> THEN Zero
    ELSE Add(IF BarDate(Head(ts).exit_time) = date THEN Head(ts).pnl ELSE Zero,
             PnlRealizedOn(Tail(ts), date))

\* C25: during a simulated run daily_pnl is the sum of the pnl realized on the
\* calendar date of the bar being processed; pnl realized on the date of an
\* earlier bar is not in it.
C25_DailyPnlKeyedByBarDate ==
    nbars > 0 =>
        Sub(daily_pnl, PnlRealizedOn(trades, BarDate(last_row.name))) = Zero

\* entry_price * quantity + entry fee of a position
TotalCost(position) ==
    Add(Mul(position.entry_price, position.quantity), position.fees_paid)

\* C26: the balance is never negative: it starts non-negative, a position is
\* opened only if entry_price * quantity + fees <= balance and the open debits
\* exactly that amount, and a step that records a trade does not lower the
\* balance.
C26_BalanceNeverNegative ==
    /\ RLe(Zero, balance)
    /\ [][/\ RLe(Zero, balance')
          /\ (~IsOpen /\ IsOpen') =>
                 /\ RLe(TotalCost(positions'[Symbol]), balance)
                 /\ Sub(Sub(balance, TotalCost(positions'[Symbol])), balance') = Zero
          /\ Len(trades') > Len(trades) => RLe(balance, balance')
         ]_vars

\* A position bought with the whole balance after an earlier trade was closed
C26_Witness ==
    /\ IsOpen
    /\ balance = Zero
    /\ trades # <<>>

\* The entry fee of a ledger trade: its recorded fees minus the fee charged on
\* its exit proceeds
EntryFee(trade) ==
    Sub(trade.fees, Mul(Mul(trade.exit_price, trade.quantity), commission))

\* The sum over the ledger of pnl - entry fee
RECURSIVE SumNetOfEntryFee(_)
SumNetOfEntryFee(ts) ==
    IF ts = <<>> THEN Zero
    ELSE Add(Sub(Head(ts).pnl, EntryFee(Head(ts))), SumNetOfEntryFee(Tail(ts)))

\* C27: whenever no position is open the balance is the initial capital plus
\* the sum over the ledger of (pnl - entry fee); with commission 0 that is the
\* initial capital plus the sum of the trades' pnl.
C27_CashConservation ==
    ~IsOpen =>
        /\ Sub(balance, Add(initial_capital, SumNetOfEntryFee(trades))) = Zero
        /\ commission = Zero =>
               Sub(balance, Add(initial_capital, SumPnl(trades))) = Zero

\* Flat after two trades that paid commission, with a balance that is not
\* the initial capital plus the sum of pnl
C27_Witness ==
    /\ ~IsOpen
    /\ Len(trades) = 2
    /\ commission # Zero
    /\ balance # initial_capital
    /\ Sub(balance, Add(initial_capital, SumPnl(trades))) # Zero

\* C28: the final_equity returned by a run over at least one bar is the last
\* element of the equity curve, also when a position was closed on the last
\* bar, and total_return is (final_equity - initial_capital) /
\* initial_capital * 100.
C28_FinalEquityIsLastCurvePoint ==
    (pc = "done" /\ nbars > 0) =>
        /\ results.final_equity = results.equity_curve[Len(results.equity_curve)]
        /\ results.final_equity = equity_curve[nbars]
        /\ Sub(results.total_return,
               Mul(Div(Sub(results.final_equity, initial_capital), initial_capital),
                   Hundred)) = Zero

\* A finished run whose last trade was closed on the last bar at a cost: the
\* balance is not the reported final equity
C28_Witness ==
    /\ pc = "done"
    /\ nbars > 0
    /\ trades # <<>>
    /\ trades[Len(trades)].exit_time = last_row.name
    /\ trades[Len(trades)].exit_reason \in {MANUAL, STOP_LOSS}
    /\ results.final_equity # balance
    /\ results.total_return # Zero

\* C29: every trade of the ledger has exit_reason stop_loss, take_profit,
\* signal or manual; a close on a stop ratcheted above the stop of the entry is
\* recorded as stop_loss; manual is recorded only by the close at the end of
\* the data, so on at most one trade, the last one of a finished run.
C29_ExitReasons ==
    [][/\ \A i \in 1..Len(trades') :
             trades'[i].exit_reason \in {STOP_LOSS, TAKE_PROFIT, SIGNAL, MANUAL}
       /\ ManualTrades(trades') \subseteq {Len(trades')}
       /\ ManualTrades(trades') # {} => pc' = "done"
       /\ (Len(trades') > Len(trades) /\ trades'[Len(trades')].exit_reason = MANUAL)
             => (pc = "loop" /\ pc' = "done" /\ IsOpen)
       /\ (/\ IsBarStep
           /\ IsOpen
           /\ RLe(last_row'.close,
                  managed_position(positions[Symbol], last_row').stop_loss))
             => /\ Len(trades') = Len(trades) + 1
                /\ trades'[Len(trades')].exit_reason = STOP_LOSS
      ]_vars

\* A finished run with a trade closed as stop_loss at a price above the stop
\* of its entry: the stop had been ratcheted by the trailing rule
C29_Witness ==
    /\ pc = "done"
    /\ \E i \in 1..Len(trades) :
          /\ trades[i].exit_reason = STOP_LOSS
          /\ RLt(calculate_stop_loss(trades[i].entry_price, SIDE_BUY),
                 trades[i].exit_price)

\* The ledgers and curves of the two engines are the same
SameLedgerAndCurve ==
    /\ trades = twin.e.trades
    /\ equity_curve = twin.e.equity_curve
    /\ dates = twin.e.dates
    /\ balance = twin.e.balance
    /\ positions = twin.e.positions

\* C30: with either position_sizing_method the position the engine opens has
\* the size balance * max_position_size_percent / 100, and two runs on the
\* same rows that differ only in the method being fixed or volatility have
\* the same trade ledger and equity curve after every bar and return the same
\* results.
C30_SizingMethodIrrelevant ==
    /\ SameLedgerAndCurve
    /\ [][/\ SameLedgerAndCurve'
          /\ pc' = "done" => results' = twin'.results
          /\ (~IsOpen /\ IsOpen') =>
                 Sub(Mul(positions'[Symbol].quantity, last_row'.close),
                     MaxPositionSize(balance)) = Zero
         ]_vars

\* A volatility-method run and its fixed-method twin have both returned two
\* trades
C30_Witness ==
    /\ pc = "done"
    /\ settings.position_sizing_method = VOLATILITY
    /\ Len(trades) = 2
    /\ Len(twin.e.trades) = 2
    /\ twin.results.total_trades = 2
    /\ trades[1].quantity = Div(Q(1000), trades[1].entry_price)

====
